---- MODULE Spec2Model ----
(***************************************************************************)
(* AgriLink market feed (src/main.py): the in-memory list of listings and  *)
(* the three handlers over it (get_market_feed, create_listing, buy_item), *)
(* first as a request/response machine, then with several requests in      *)
(* flight.  The buyer matching heuristic of the dispatch service, whose    *)
(* code is not part of src/, is modelled from spec.md section 4.4.         *)
(***************************************************************************)
EXTENDS Integers, Sequences, FiniteSets, TLC

VARIABLES market_feed, now, issued, sold, response, requests, results, contender,
          buyers, dispatch

vars == <<market_feed, now, issued, sold, response, requests, results, contender,
          buyers, dispatch>>

feedVars == <<market_feed, now, issued, sold>>

(* ------------------------------ bounds --------------------------------- *)

\* number of distinct values the uuid4 source can still hand out
MaxUuid == 2

\* largest advance of the wall clock between two consecutive readings
MaxTick == 1

\* number of requests that may be submitted in the concurrent specification
MaxRequests == 3

(* --------------------------- identifiers ------------------------------- *)

\* Identifiers are strings in the code.  They are numbered here: 1..3 are the
\* seed strings "1", "2", "3"; 4.. are strings of the form str(uuid4()), which
\* have 36 characters and so never equal a seed string; 0 is any other string.
SeedIds == {1, 2, 3}

UuidStrings == 4..(3 + MaxUuid)

OtherId == 0

NoId == -1

\* uuid.uuid4(): 122 random bits; a value is taken never to repeat, so the
\* result is a value not handed out before.  The unused values are
\* interchangeable (nothing orders or inspects them), so the least one stands
\* for any of them; the set is empty when the source of the model is used up.
uuid4_reused(taken) == UuidStrings

uuid4(taken) ==
    { u \in UuidStrings \ taken : \A v \in UuidStrings \ taken : u <= v }

\* uuid.uuid4().hex[:6].upper(): 24 random bits, which may repeat.
DispatchTokens == {"TRUCK-00A1B2", "TRUCK-FFFFFF"}

(* ----------------------------- listings -------------------------------- *)

MarketListing(id, item, qty, unit, zone, price, seller, time, type, created_at) ==
    [id |-> id, item |-> item, qty |-> qty, unit |-> unit, zone |-> zone,
     price |-> price, seller |-> seller, time |-> time, type |-> type,
     created_at |-> created_at]

\* The seed list; t1, t2, t3 are the clock readings of the three constructions,
\* taken in the order the list literal is evaluated.
SeedFeed(t1, t2, t3) ==
    << MarketListing(1, "Onions", 50, "Baskets", "North-West (Kano)", 8500,
                     "Sani Farms", "2m ago", "supply", t1),
       MarketListing(2, "Rice 50kg", 200, "Bags", "Lagos", 65000,
                     "Mega Stores", "10m ago", "demand", t2),
       MarketListing(3, "Yams", 400, "Tubers", "Benue", 1200,
                     "Mama Nkechi", "45m ago", "supply", t3) >>

ListingRequest(farmer_id, item_name, quantity, unit, location_zone, price_total) ==
    [farmer_id |-> farmer_id, item_name |-> item_name, quantity |-> quantity,
     unit |-> unit, location_zone |-> location_zone, price_total |-> price_total]

\* request bodies the clients send to create_listing; the first repeats the
\* fields of seed "1", the second leaves the unit to the schema's default
ListingRequests ==
    { ListingRequest("Sani Farms", "Onions", 50, "Baskets", "North-West (Kano)", 8500),
      ListingRequest("Musa", "Maize", 20, "kg", "Benue", 1200) }

NoListingRequest == ListingRequest("", "", 0, "", "", 0)

\* listing_id values the clients send to buy_item
BuyIds == SeedIds \cup UuidStrings \cup {OtherId}

(* --------------------------- list operations --------------------------- *)

Ids(feed) == { feed[i].id : i \in 1..Len(feed) }

RemoveAt(feed, i) == SubSeq(feed, 1, i - 1) \o SubSeq(feed, i + 1, Len(feed))

\* list.insert(0, x)
ListInsert0_append(feed, x) == Append(feed, x)

ListInsert0(feed, x) == <<x>> \o feed

\* next((x for x in market_feed if x.id == listing_id), None): the position of
\* the first listing with that id, 0 for None
FindListing_first(feed, listing_id) ==
    IF \E i \in 1..Len(feed) : feed[i].id = listing_id
    THEN CHOOSE i \in 1..Len(feed) :
            /\ feed[i].id = listing_id
            /\ \A j \in 1..(i - 1) : feed[j].id # listing_id
    ELSE IF Len(feed) > 0 THEN 1 ELSE 0

FindListing(feed, listing_id) ==
    IF \E i \in 1..Len(feed) : feed[i].id = listing_id
    THEN CHOOSE i \in 1..Len(feed) :
            /\ feed[i].id = listing_id
            /\ \A j \in 1..(i - 1) : feed[j].id # listing_id
    ELSE 0

\* list.remove(x): deletes the first element that compares equal to x (a
\* pydantic model compares equal when all fields are equal)
ListRemove_head(feed, x) == Tail(feed)

ListRemove_noop(feed, x) == feed

ListRemove_byItem(feed, x) ==
    LET i == CHOOSE k \in 1..Len(feed) :
                /\ feed[k].item = x.item
                /\ \A j \in 1..(k - 1) : feed[j].item # x.item
    IN  RemoveAt(feed, i)

ListRemove(feed, x) ==
    LET i == CHOOSE k \in 1..Len(feed) :
                /\ feed[k] = x
                /\ \A j \in 1..(k - 1) : feed[j] # x
    IN  RemoveAt(feed, i)

\* listing.type != 'supply' is the refusal; this is its negation
IsSupply_any(listing) == TRUE

IsSupply(listing) == listing.type = "supply"

(* ------------------------------ handlers ------------------------------- *)

Response(op, status, st, listing_id, dispatch_id, body) ==
    [op |-> op, status_code |-> status, status |-> st, listing_id |-> listing_id,
     dispatch_id |-> dispatch_id, body |-> body]

NoResponse == Response("none", 0, "", NoId, "", <<>>)

\* GET /market/feed
get_market_feed(feed) == Response("feed", 200, "", NoId, "", feed)

\* POST /market/create_listing; new_id is the uuid drawn, t the clock reading
\* at the construction of the listing
create_listing(feed, request, new_id, t) ==
    LET new_listing == MarketListing(new_id, request.item_name, request.quantity,
                                     request.unit, request.location_zone,
                                     request.price_total, request.farmer_id,
                                     "Just Now", "supply", t)
    IN  [feed |-> ListInsert0(feed, new_listing),
         response |-> Response("create", 201, "created", new_listing.id, "", <<>>)]

\* POST /market/buy; token is the dispatch token drawn on success
buy_item(feed, listing_id, token) ==
    LET i == FindListing(feed, listing_id) IN
    IF i = 0
    THEN [feed |-> feed, response |-> Response("buy", 404, "", listing_id, "", <<>>)]
    ELSE IF ~IsSupply(feed[i])
    THEN [feed |-> feed, response |-> Response("buy", 400, "", listing_id, "", <<>>)]
    ELSE [feed |-> ListRemove(feed, feed[i]),
          response |-> Response("buy", 200, "success", listing_id, token, <<>>)]

(* ------------------ sequential specification: Spec --------------------- *)

InitFeed ==
    /\ \E d1, d2 \in 0..MaxTick :
          /\ market_feed = SeedFeed(0, d1, d1 + d2)
          /\ now = d1 + d2
    /\ issued = {}
    /\ sold = {}

InitDispatchIdle ==
    /\ buyers = <<>>
    /\ dispatch = [status |-> "", matched_buyer |-> "", estimated_payout |-> 0,
                   product |-> "", location |-> "", quantity |-> 0]

Init ==
    /\ InitFeed
    /\ response = NoResponse
    /\ requests = <<>>
    /\ results = <<>>
    /\ contender = <<>>
    /\ InitDispatchIdle

GetMarketFeed ==
    /\ response' = get_market_feed(market_feed)
    /\ UNCHANGED <<feedVars, requests, results, contender, buyers, dispatch>>

CreateListing ==
    \E request \in ListingRequests, dt \in 0..MaxTick :
    \E new_id \in uuid4(issued) :
       LET r == create_listing(market_feed, request, new_id, now + dt) IN
       /\ market_feed' = r.feed
       /\ response' = r.response
       /\ now' = now + dt
       /\ issued' = issued \cup {new_id}
       /\ UNCHANGED <<sold, requests, results, contender, buyers, dispatch>>

BuyItem ==
    \E listing_id \in BuyIds, token \in DispatchTokens :
       LET r == buy_item(market_feed, listing_id, token) IN
       /\ market_feed' = r.feed
       /\ response' = r.response
       /\ sold' = IF r.response.status_code = 200 THEN sold \cup {listing_id} ELSE sold
       /\ UNCHANGED <<now, issued, requests, results, contender, buyers, dispatch>>

Next == GetMarketFeed \/ CreateListing \/ BuyItem

Spec == Init /\ [][Next]_vars

(* ------------------- properties of the sequential machine -------------- *)

\* the step just taken was handled by the named handler
Handled(op) == response'.op = op

\* C1: once a buy of an identifier has succeeded, every later buy with that
\* identifier is answered 404, whatever happened in between.
C1_BuyIsPermanent ==
    [][(Handled("buy") /\ response'.listing_id \in sold)
          => response'.status_code = 404]_vars

\* a buy of an already sold identifier was refused after a listing was created
C1_Witness ==
    /\ response.op = "buy"
    /\ response.status_code = 404
    /\ response.listing_id \in sold
    /\ issued # {}

\* C2: after create_listing, the feed read next has the new listing (the one
\* with the returned listing_id) first, then the previous listings in their
\* previous order.
C2_CreateThenFeed ==
    [][Handled("create") =>
          LET body == get_market_feed(market_feed').body IN
          /\ response'.status_code = 201
          /\ Len(body) = Len(market_feed) + 1
          /\ body[1].id = response'.listing_id
          /\ Tail(body) = market_feed]_vars

\* a listing was created on a feed from which something had been bought
C2_Witness ==
    /\ response.op = "create"
    /\ sold # {}
    /\ Len(market_feed) >= 3
    /\ market_feed[1].id = response.listing_id

\* C3: a buy that names a demand listing is answered 400 and leaves the feed
\* as it was.
C3_BuyDemandRefused ==
    [][(/\ Handled("buy")
        /\ \E i \in 1..Len(market_feed) :
              /\ market_feed[i].id = response'.listing_id
              /\ market_feed[i].type = "demand")
          => /\ response'.status_code = 400
             /\ market_feed' = market_feed]_vars

\* the demand listing was refused on a feed that holds created listings
C3_Witness ==
    /\ response.op = "buy"
    /\ response.status_code = 400
    /\ response.listing_id = 2
    /\ issued # {}

\* C4: a buy whose identifier matches no listing of the feed is answered 404
\* and leaves the feed as it was.
C4_BuyAbsentNotFound ==
    [][(Handled("buy") /\ response'.listing_id \notin Ids(market_feed))
          => /\ response'.status_code = 404
             /\ market_feed' = market_feed]_vars

\* a never listed identifier was refused on a non-empty feed
C4_Witness ==
    /\ response.op = "buy"
    /\ response.status_code = 404
    /\ response.listing_id \notin sold
    /\ response.listing_id \notin Ids(market_feed)
    /\ Len(market_feed) >= 1

\* C5: no two listings of the feed have the same identifier.
C5_UniqueIds ==
    \A i, j \in 1..Len(market_feed) :
        i # j => market_feed[i].id # market_feed[j].id

\* listings were created and bought, and at least four are in the feed
C5_Witness ==
    /\ Cardinality(issued) >= 2
    /\ sold # {}
    /\ Len(market_feed) >= 4

\* C6: the feed is ordered by creation timestamp, newest first: a listing is
\* never older than one that comes after it.
C6_NewestFirstByCreatedAt ==
    \A i, j \in 1..Len(market_feed) :
        i < j => market_feed[i].created_at >= market_feed[j].created_at

\* C7: a listing leaves the feed only through a successful buy of its own
\* identifier; otherwise it stays with all its fields, and a demand listing
\* always stays.
C7_RemovedOnlyByOwnBuy ==
    [][\A i \in 1..Len(market_feed) :
          LET l == market_feed[i] IN
          \/ \E j \in 1..Len(market_feed') : market_feed'[j] = l
          \/ /\ Handled("buy")
             /\ response'.status_code = 200
             /\ response'.listing_id = l.id
             /\ l.type = "supply"]_vars

\* both supply seeds and a created listing were bought, the demand seed stays
C7_Witness ==
    /\ {1, 3} \subseteq sold
    /\ sold \cap issued # {}
    /\ \E i \in 1..Len(market_feed) :
          market_feed[i].id = 2 /\ market_feed[i].type = "demand"

\* C10: a buy that names a supply listing of the feed succeeds and removes
\* that listing and no other: the rest keeps its fields and its order.
C10_BuyRemovesExactlyTarget ==
    [][\A i \in 1..Len(market_feed) :
          (/\ Handled("buy")
           /\ market_feed[i].id = response'.listing_id
           /\ market_feed[i].type = "supply")
          => /\ response'.status_code = 200
             /\ Len(market_feed') = Len(market_feed) - 1
             /\ market_feed' = RemoveAt(market_feed, i)]_vars

\* seed "1" was bought while a created listing with the same item, quantity,
\* unit, zone, price and seller stands before its place in the feed
C10_Witness ==
    /\ response.op = "buy"
    /\ response.status_code = 200
    /\ response.listing_id = 1
    /\ Len(market_feed) >= 3
    /\ market_feed[1].item = "Onions"
    /\ market_feed[1].seller = "Sani Farms"

(* ------------- requests in flight: SpecConcurrent ----------------------- *)

\* The handlers are coroutines without an await: the event loop runs each to
\* its return before it starts another.  A request is in flight from its
\* submission to the step in which its handler runs.

Request(op, listing_id, body) == [op |-> op, listing_id |-> listing_id, body |-> body]

\* listing_id values of the buys in flight: a supply seed and the identifier
\* of the first listing create_listing adds
ContendedIds == {1} \cup uuid4({})

\* the creates in flight repeat the fields of seed "1"
ContendedBodies == { b \in ListingRequests : b.item_name = "Onions" }

ClientRequests ==
    {Request("feed", NoId, NoListingRequest)}
    \cup { Request("create", NoId, b) : b \in ContendedBodies }
    \cup { Request("buy", id, NoListingRequest) : id \in ContendedIds }

Pending(s) == results[s] = NoResponse

SupplyInFeed(feed, id) ==
    \E i \in 1..Len(feed) : feed[i].id = id /\ feed[i].type = "supply"

InitConcurrent == Init

\* a client sends a request; contender records whether a buy was in flight at
\* a moment its listing was a supply listing of the feed
Submit ==
    \E req \in ClientRequests :
       /\ Len(requests) < MaxRequests
       /\ requests' = Append(requests, req)
       /\ results' = Append(results, NoResponse)
       /\ contender' = Append(contender,
                              req.op = "buy" /\ SupplyInFeed(market_feed, req.listing_id))
       /\ UNCHANGED <<feedVars, response, buyers, dispatch>>

HandleFeed ==
    \E s \in 1..Len(requests) :
       /\ Pending(s)
       /\ requests[s].op = "feed"
       /\ results' = [results EXCEPT ![s] = get_market_feed(market_feed)]
       /\ UNCHANGED <<feedVars, response, requests, contender, buyers, dispatch>>

HandleCreate ==
    \E s \in 1..Len(requests), dt \in 0..MaxTick :
    \E new_id \in uuid4(issued) :
       LET r == create_listing(market_feed, requests[s].body, new_id, now + dt) IN
       /\ Pending(s)
       /\ requests[s].op = "create"
       /\ market_feed' = r.feed
       /\ results' = [results EXCEPT ![s] = r.response]
       /\ now' = now + dt
       /\ issued' = issued \cup {new_id}
       /\ contender' = [t \in 1..Len(requests) |->
                          \/ contender[t]
                          \/ /\ Pending(t)
                             /\ requests[t].op = "buy"
                             /\ SupplyInFeed(r.feed, requests[t].listing_id)]
       /\ UNCHANGED <<sold, response, requests, buyers, dispatch>>

HandleBuy ==
    \E s \in 1..Len(requests), token \in DispatchTokens :
       LET r == buy_item(market_feed, requests[s].listing_id, token) IN
       /\ Pending(s)
       /\ requests[s].op = "buy"
       /\ market_feed' = r.feed
       /\ results' = [results EXCEPT ![s] = r.response]
       /\ sold' = IF r.response.status_code = 200
                  THEN sold \cup {requests[s].listing_id} ELSE sold
       /\ UNCHANGED <<now, issued, response, requests, contender, buyers, dispatch>>

NextConcurrent == Submit \/ HandleFeed \/ HandleCreate \/ HandleBuy

SpecConcurrent == InitConcurrent /\ [][NextConcurrent]_vars

BuysOf(id) == { s \in 1..Len(requests) : requests[s].op = "buy" /\ requests[s].listing_id = id }

Contenders(id) == { s \in BuysOf(id) : contender[s] }

\* C8: of the buys in flight for one supply listing, with creates and feed
\* reads in flight as well, at most one succeeds at any time, and once all of
\* them are answered exactly one has succeeded and every other got 404.
C8_NoDoubleBooking ==
    \A id \in ContendedIds :
       /\ Cardinality({ s \in BuysOf(id) : results[s].status_code = 200 }) <= 1
       /\ (Contenders(id) # {} /\ \A s \in Contenders(id) : ~Pending(s))
             => \E w \in Contenders(id) :
                   /\ results[w].status_code = 200
                   /\ \A s \in BuysOf(id) \ {w} :
                         ~Pending(s) => results[s].status_code = 404

\* two buys of seed "1" were in flight together with a create, all answered
C8_Witness ==
    /\ Cardinality(Contenders(1)) >= 2
    /\ \A s \in 1..Len(requests) : ~Pending(s)
    /\ \E s \in 1..Len(requests) : requests[s].op = "create"

(* ------------- buyer matching heuristic: SpecDispatch ------------------- *)

\* fixed proximity bonus (10 * 12000 + 5000 = 125000 in the worked example)
ProximityBonus == 5000

Commodities == {"tomatoes", "onions", "pepper"}

Locations == {"zaria", "lagos", "abuja", "kano"}

\* quantities the extraction can yield: none found, and two found
Quantities == {0, 1, 10}

Buyer(name, location, needs, price_per_unit) ==
    [name |-> name, location |-> location, needs |-> needs,
     price_per_unit |-> price_per_unit]

\* the seeded buyer the worked example names
KnownBuyers ==
    { Buyer("Lagos Mile 12 Aggregator", "lagos", n, 12000) :
         n \in {{"tomatoes"}, {"tomatoes", "pepper"}} }

\* the other three seeded buyers are not given; they range over these
OtherBuyers ==
    { Buyer("Buyer", l, n, p) :
         l \in {"lagos", "kano"}, n \in {{"tomatoes"}, {"onions", "pepper"}},
         p \in {12000, 15000} }

\* buyers whose needs contain the commodity; no name of the vocabulary is a
\* substring of another, so the substring test on the delimited text is
\* membership
find_buyers_needing(tbl, commodity) ==
    SelectSeq(tbl, LAMBDA b : commodity \in b.needs)

Payout(b, location, quantity) ==
    b.price_per_unit * quantity
       + (IF b.location = location THEN ProximityBonus ELSE 0)

RECURSIVE MatchFrom(_, _, _, _, _, _)
\* the scan: the candidate with the strictly greatest payout seen so far
MatchFrom(cands, k, location, quantity, best_match, highest_payout) ==
    IF k > Len(cands)
    THEN [best_match |-> best_match, highest_payout |-> highest_payout]
    ELSE LET payout == Payout(cands[k], location, quantity) IN
         IF payout > highest_payout
         THEN MatchFrom(cands, k + 1, location, quantity, cands[k].name, payout)
         ELSE MatchFrom(cands, k + 1, location, quantity, best_match, highest_payout)

analyze_dispatch(tbl, product, location, quantity) ==
    LET m == MatchFrom(find_buyers_needing(tbl, product), 1, location, quantity, "", 0) IN
    [status |-> IF m.best_match # "" THEN "DISPATCH_APPROVED" ELSE "PENDING_WAREHOUSE",
     matched_buyer |-> m.best_match,
     estimated_payout |-> m.highest_payout,
     product |-> product, location |-> location, quantity |-> quantity]

\* the dispatch service is a separate process: it holds no feed
InitDispatch ==
    /\ market_feed = <<>>
    /\ now = 0
    /\ issued = {}
    /\ sold = {}
    /\ response = NoResponse
    /\ requests = <<>>
    /\ results = <<>>
    /\ contender = <<>>
    /\ \E k \in KnownBuyers, b2, b3, b4 \in OtherBuyers : buyers = <<k, b2, b3, b4>>
    /\ dispatch = [status |-> "", matched_buyer |-> "", estimated_payout |-> 0,
                   product |-> "", location |-> "", quantity |-> 0]

AnalyzeDispatch ==
    \E product \in Commodities, location \in Locations \cup {"unknown"},
       quantity \in Quantities :
       /\ dispatch' = analyze_dispatch(buyers, product, location, quantity)
       /\ UNCHANGED <<feedVars, response, requests, results, contender, buyers>>

NextDispatch == AnalyzeDispatch

SpecDispatch == InitDispatch /\ [][NextDispatch]_vars

\* C9: when the extracted quantity is zero or no buyer needs the extracted
\* commodity, no buyer is selected and the outcome is PENDING_WAREHOUSE with
\* payout 0, whatever the commodity and the location.
C9_NoMatchWhenZeroOrUnneeded ==
    (/\ dispatch.status # ""
     /\ \/ dispatch.quantity = 0
        \/ find_buyers_needing(buyers, dispatch.product) = <<>>)
       => /\ dispatch.status = "PENDING_WAREHOUSE"
          /\ dispatch.matched_buyer = ""
          /\ dispatch.estimated_payout = 0

====
